---- MODULE Spec2Model ----
(***************************************************************************)
(* Model of src/src/main.rs: a character-frequency benchmark.  main reads  *)
(* its arguments, loads the file, and benchmark_all sweeps the thread      *)
(* count 1..max; benchmark reruns count_chars_parallel `reruns` times;     *)
(* count_chars_parallel splits the lines in chunks, spawns one scoped      *)
(* thread per chunk, each sending its partial HashMap over an mpsc         *)
(* channel, and merges what it receives.                                   *)
(*                                                                         *)
(* A String is a sequence of chars, a HashMap<char, usize> is a function   *)
(* whose DOMAIN is the set of keys present, an Option is a sequence of     *)
(* length 0 (None) or 1 (Some).  Durations are not modelled.               *)
(***************************************************************************)
EXTENDS Integers, Sequences, FiniteSets, TLC

(* Bounds of the model. *)
MaxLines == 3
MaxThreads == 3
MaxReruns == 2
MaxRank == 2
UsizeBits == 4

(* usize::MAX, scaled to UsizeBits bits. *)
USIZE_MAX == 2^UsizeBits - 1

Chars == {"a", "b"}

(* The lines a file is made of. *)
LineSet == {<< >>, <<"a">>, <<"b", "b", "a">>}

(* The line sequences load_file can return. *)
Files == UNION {[1..n -> LineSet] : n \in 0..MaxLines}

(* The values clap can hand to main. *)
MaxArgs == (0..MaxThreads) \cup {USIZE_MAX}
RerunArgs == 0..MaxReruns
StatsArgs == {<< >>} \cup {<<k>> : k \in 0..MaxRank}

None == << >>
Some(x) == <<x>>
unwrap(o) == o[1]

Min(a, b) == IF a < b THEN a ELSE b

(* std::cmp::max *)
max(a, b) == IF a > b THEN a ELSE b

(* HashMap::new() *)
EmptyMap == << >>

(* *counter.entry(c).or_default() += v *)
EntryAdd(m, c, v) ==
    IF c \in DOMAIN m
    THEN [m EXCEPT ![c] = @ + v]
    ELSE m @@ (c :> 0 + v)

(* The inner loop of count_chars: the chars of one string. *)
RECURSIVE CountStr(_, _)
CountStr(m, text) ==
    IF text = << >> THEN m
    ELSE CountStr(EntryAdd(m, Head(text), 1), Tail(text))

RECURSIVE CountLines(_, _)
CountLines(m, input) ==
    IF input = << >> THEN m
    ELSE CountLines(CountStr(m, Head(input)), Tail(input))

count_chars(input) == CountLines(EmptyMap, input)

(* The merge loop body: every (key, value) of counter_part is added. *)
RECURSIVE MergeKeys(_, _, _)
MergeKeys(m, part, keys) ==
    IF keys = {} THEN m
    ELSE LET k == CHOOSE x \in keys : TRUE
         IN  MergeKeys(EntryAdd(m, k, part[k]), part, keys \ {k})

Merge(m, part) == MergeKeys(m, part, DOMAIN part)

(* A block size that rounds down. *)
BLCKSZ_floor(len, n) == len \div n

(* let BLCKSZ = (input.len() + n - 1) / n *)
BLCKSZ(len, n) == (len + n - 1) \div n

(* slice::chunks(size), size > 0 *)
Chunks(input, size) ==
    LET cnt == (Len(input) + size - 1) \div size
    IN  [i \in 1..cnt |->
            SubSeq(input, (i - 1) * size + 1, Min(i * size, Len(input)))]

VARIABLES
    pc,           \* position of the main thread
    panic,        \* "none", or why the process panicked
    out,          \* the lines printed to standard output
    max_threads,  \* main's max_threads
    reruns,       \* main's reruns
    args,         \* the raw --max and --reruns values
    loaded,       \* what load_file returned: "pending", "ok" or "err"
    lines,        \* the loaded file
    par_level,    \* benchmark_all's loop variable
    allCounter,   \* benchmark_all's counter: Option<HashMap>
    run,          \* number of finished iterations of benchmark's loop
    benchCounter, \* benchmark's counter: Option<HashMap>
    results,      \* the mappings the reruns of the current benchmark returned
    chunks,       \* the chunks of the current count_chars_parallel call
    wstate,       \* state of each spawned worker of the current call
    chan,         \* the channel's queue
    senderOpen,   \* the original sender has not been dropped
    counter,      \* count_chars_parallel's accumulator
    received,     \* number of messages the current call has received
    stats,        \* the mapping main got from benchmark_all
    rank          \* the --stats value main read: Option<usize>

vars == <<pc, panic, out, max_threads, reruns, args, loaded, lines, par_level,
          allCounter, run, benchCounter, results, chunks, wstate, chan,
          senderOpen, counter, received, stats, rank>>

callVars == <<chunks, wstate, chan, senderOpen, counter, received>>

Line(kind, ch, n) == [kind |-> kind, ch |-> ch, n |-> n]

Init ==
    /\ pc = "args"
    /\ panic = "none"
    /\ out = << >>
    /\ max_threads = 0
    /\ reruns = 0
    /\ args = [max |-> 0, reruns |-> 0]
    /\ loaded = "pending"
    /\ lines = << >>
    /\ par_level = 0
    /\ allCounter = None
    /\ run = 0
    /\ benchCounter = None
    /\ results = << >>
    /\ chunks = << >>
    /\ wstate = << >>
    /\ chan = << >>
    /\ senderOpen = FALSE
    /\ counter = EmptyMap
    /\ received = 0
    /\ stats = EmptyMap
    /\ rank = None

(* main, lines 73-82: zero-valued --max and --reruns are replaced by 1. *)
ParseArgs ==
    /\ pc = "args"
    /\ \E m \in MaxArgs, r \in RerunArgs :
        /\ args' = [max |-> m, reruns |-> r]
        /\ max_threads' = IF m = 0 THEN 1 ELSE m
        /\ reruns' = IF r = 0 THEN 1 ELSE r
        /\ out' = out
                \o (IF m = 0 THEN <<Line("warn_max", "", 0)>> ELSE << >>)
                \o (IF r = 0 THEN <<Line("warn_reruns", "", 0)>> ELSE << >>)
    /\ pc' = "load"
    /\ UNCHANGED <<panic, loaded, lines, par_level, allCounter, run,
                   benchCounter, results, callVars, stats, rank>>

(* A main that goes on whatever load_file returned. *)
AfterLoadIgnoringError(ok) == "benchmark_all"

(* Where main goes after load_file(..)?: on, or out with the io::Error. *)
AfterLoad(ok) == IF ok THEN "benchmark_all" ELSE "error"

(* main, line 84: load_file returns the lines or an io::Error. *)
LoadFile ==
    /\ pc = "load"
    /\ \/ \E f \in Files :
            lines' = f /\ loaded' = "ok" /\ pc' = AfterLoad(TRUE)
       \/ lines' = lines /\ loaded' = "err" /\ pc' = AfterLoad(FALSE)
    /\ UNCHANGED <<panic, out, max_threads, reruns, args, par_level,
                   allCounter, run, benchCounter, results, callVars, stats,
                   rank>>

(* benchmark_all, lines 56-57: the range 1..max+1 is built once.  max + 1 *)
(* overflows for usize::MAX: with overflow checks the addition panics,     *)
(* without them it wraps to 0, the range is empty and counter.unwrap()     *)
(* (line 62) panics on None.                                               *)
BenchmarkAllEnter ==
    /\ pc = "benchmark_all"
    /\ allCounter' = None
    /\ IF max_threads = USIZE_MAX
       THEN /\ pc' = "panic"
            /\ panic' \in {"add_overflow", "unwrap_none"}
            /\ UNCHANGED par_level
       ELSE /\ pc' = "sweep"
            /\ par_level' = 1
            /\ UNCHANGED panic
    /\ UNCHANGED <<out, max_threads, reruns, args, loaded, lines, run,
                   benchCounter, results, callVars, stats, rank>>

(* benchmark_all, line 58 and benchmark, lines 47-48: the next sweep point *)
(* starts.                                                                 *)
SweepNext ==
    /\ pc = "sweep"
    /\ par_level <= max_threads
    /\ run' = 0
    /\ benchCounter' = None
    /\ results' = << >>
    /\ pc' = "bench"
    /\ UNCHANGED <<panic, out, max_threads, reruns, args, loaded, lines,
                   par_level, allCounter, callVars, stats, rank>>

(* benchmark_all, line 62 and main, line 86: the sweep is over. *)
SweepReturn ==
    /\ pc = "sweep"
    /\ par_level > max_threads
    /\ IF allCounter = None
       THEN pc' = "panic" /\ panic' = "unwrap_none" /\ UNCHANGED stats
       ELSE pc' = "report" /\ stats' = unwrap(allCounter) /\ UNCHANGED panic
    /\ UNCHANGED <<out, max_threads, reruns, args, loaded, lines, par_level,
                   allCounter, run, benchCounter, results, callVars, rank>>

(* benchmark, line 50 and count_chars_parallel, lines 25-29: one more      *)
(* rerun calls count_chars_parallel, which creates the channel and the     *)
(* accumulator and asks for the chunks; slice::chunks panics on size 0.    *)
BenchCall ==
    /\ pc = "bench"
    /\ run < reruns
    /\ LET size == BLCKSZ(Len(lines), par_level)
       IN  IF size = 0
           THEN /\ pc' = "panic"
                /\ panic' = "chunk_size_zero"
                /\ UNCHANGED callVars
           ELSE /\ pc' = "scope"
                /\ chunks' = Chunks(lines, size)
                /\ wstate' = << >>
                /\ chan' = << >>
                /\ senderOpen' = TRUE
                /\ counter' = EmptyMap
                /\ received' = 0
                /\ UNCHANGED panic
    /\ UNCHANGED <<out, max_threads, reruns, args, loaded, lines, par_level,
                   allCounter, run, benchCounter, results, stats, rank>>

(* benchmark, line 52 and benchmark_all, lines 59-60: the reruns are over, *)
(* the last mapping is returned and the timing line is printed.            *)
BenchReturn ==
    /\ pc = "bench"
    /\ run >= reruns
    /\ IF benchCounter = None
       THEN /\ pc' = "panic"
            /\ panic' = "unwrap_none"
            /\ UNCHANGED <<allCounter, out, par_level>>
       ELSE /\ allCounter' = Some(unwrap(benchCounter))
            /\ out' = Append(out, Line("time", "", par_level))
            /\ par_level' = par_level + 1
            /\ pc' = "sweep"
            /\ UNCHANGED panic
    /\ UNCHANGED <<max_threads, reruns, args, loaded, lines, run, benchCounter,
                   results, callVars, stats, rank>>

(* The receiver lives from line 25 to the end of count_chars_parallel. *)
ReceiverAlive == pc \in {"scope", "drop", "recv"}

(* lines 29-34: the next chunk gets a clone of the sender and a thread. *)
Spawn ==
    /\ pc = "scope"
    /\ Len(wstate) < Len(chunks)
    /\ wstate' = Append(wstate, "running")
    /\ UNCHANGED <<pc, panic, out, max_threads, reruns, args, loaded, lines,
                   par_level, allCounter, run, benchCounter, results, chunks,
                   chan, senderOpen, counter, received, stats, rank>>

(* lines 32-33: a worker counts its chunk and sends the mapping; the       *)
(* unwrap panics if the receiver is gone.                                  *)
WorkerSend(w) ==
    /\ w \in DOMAIN wstate
    /\ wstate[w] = "running"
    /\ IF ReceiverAlive
       THEN /\ chan' = Append(chan, count_chars(chunks[w]))
            /\ wstate' = [wstate EXCEPT ![w] = "sent"]
            /\ UNCHANGED <<pc, panic>>
       ELSE /\ pc' = "panic"
            /\ panic' = "send_error"
            /\ UNCHANGED <<chan, wstate>>
    /\ UNCHANGED <<out, max_threads, reruns, args, loaded, lines, par_level,
                   allCounter, run, benchCounter, results, chunks,
                   senderOpen, counter, received, stats, rank>>

(* line 34: the closure ends, its sender clone is dropped, the thread      *)
(* terminates.                                                             *)
WorkerExit(w) ==
    /\ w \in DOMAIN wstate
    /\ wstate[w] = "sent"
    /\ wstate' = [wstate EXCEPT ![w] = "done"]
    /\ UNCHANGED <<pc, panic, out, max_threads, reruns, args, loaded, lines,
                   par_level, allCounter, run, benchCounter, results, chunks,
                   chan, senderOpen, counter, received, stats, rank>>

(* A scope that does not wait for its threads. *)
ScopeJoinedAtOnce == TRUE

(* thread::scope returns once every thread spawned in it has terminated. *)
ScopeJoined == \A w \in DOMAIN wstate : wstate[w] = "done"

(* line 36: the end of thread::scope. *)
ScopeEnd ==
    /\ pc = "scope"
    /\ Len(wstate) = Len(chunks)
    /\ ScopeJoined
    /\ pc' = "drop"
    /\ UNCHANGED <<panic, out, max_threads, reruns, args, loaded, lines,
                   par_level, allCounter, run, benchCounter, results,
                   callVars, stats, rank>>

(* A sender that is never dropped. *)
SenderKept == TRUE

(* The original sender after std::mem::drop(sender). *)
SenderAfterDrop == FALSE

(* line 37 *)
DropSender ==
    /\ pc = "drop"
    /\ senderOpen' = SenderAfterDrop
    /\ pc' = "recv"
    /\ UNCHANGED <<panic, out, max_threads, reruns, args, loaded, lines,
                   par_level, allCounter, run, benchCounter, results,
                   chunks, wstate, chan, counter, received, stats, rank>>

(* The sender handles that exist: the original and the clone of every     *)
(* worker whose closure has not ended.                                     *)
OpenSenders ==
    (IF senderOpen THEN 1 ELSE 0)
    + Cardinality({w \in DOMAIN wstate : wstate[w] # "done"})

(* lines 38-42: recv() hands over a queued mapping, which is merged. *)
RecvMessage ==
    /\ pc = "recv"
    /\ chan # << >>
    /\ counter' = Merge(counter, Head(chan))
    /\ chan' = Tail(chan)
    /\ received' = received + 1
    /\ UNCHANGED <<pc, panic, out, max_threads, reruns, args, loaded, lines,
                   par_level, allCounter, run, benchCounter, results, chunks,
                   wstate, senderOpen, stats, rank>>

(* lines 38, 43 and 50: recv() fails once the queue is empty and every     *)
(* sender is gone; the accumulator is returned and benchmark stores it.    *)
RecvDisconnected ==
    /\ pc = "recv"
    /\ chan = << >>
    /\ OpenSenders = 0
    /\ benchCounter' = Some(counter)
    /\ results' = Append(results, counter)
    /\ run' = run + 1
    /\ pc' = "bench"
    /\ UNCHANGED <<panic, out, max_threads, reruns, args, loaded, lines,
                   par_level, allCounter, callVars, stats, rank>>

(* freq.sort_unstable_by_key(|&(_, n)| n): the entries of the mapping in   *)
(* ascending order of count; the order of equal counts is not determined.  *)
SortUnstableByKey(m) ==
    {f \in [1..Cardinality(DOMAIN m) -> DOMAIN m] :
        /\ \A i, j \in DOMAIN f : i # j => f[i] # f[j]
        /\ \A i, j \in DOMAIN f : i < j => m[f[i]] <= m[f[j]]}

(* Iterator::rev *)
Rev(s) == [i \in 1..Len(s) |-> s[Len(s) + 1 - i]]

(* Iterator::take *)
Take(s, k) == SubSeq(s, 1, Min(k, Len(s)))

(* A take count without the clamp. *)
TakeCountUnclamped(r) == r

(* .take(max(rank, 1)) *)
TakeCount(r) == max(r, 1)

(* main, lines 88-99: the top characters are printed when --stats is       *)
(* given, and main returns Ok(()).                                         *)
Report ==
    /\ pc = "report"
    /\ \E r \in StatsArgs :
        /\ rank' = r
        /\ IF r = None
           THEN out' = out
           ELSE \E freq \in SortUnstableByKey(stats) :
                    LET top == Take(Rev(freq), TakeCount(unwrap(r)))
                    IN  out' = out
                            \o (IF unwrap(r) = 0
                                THEN <<Line("warn_stats", "", 0)>> ELSE << >>)
                            \o <<Line("header", "", 0)>>
                            \o [i \in 1..Len(top) |->
                                    Line("entry", top[i], stats[top[i]])]
    /\ pc' = "done"
    /\ UNCHANGED <<panic, max_threads, reruns, args, loaded, lines, par_level,
                   allCounter, run, benchCounter, results, callVars, stats>>

(* The steps of the main thread. *)
MainStep ==
    \/ ParseArgs
    \/ LoadFile
    \/ BenchmarkAllEnter
    \/ SweepNext
    \/ SweepReturn
    \/ BenchCall
    \/ BenchReturn
    \/ Spawn
    \/ ScopeEnd
    \/ DropSender
    \/ RecvMessage
    \/ RecvDisconnected
    \/ Report

Next ==
    \/ MainStep
    \/ \E w \in DOMAIN wstate : WorkerSend(w)
    \/ \E w \in DOMAIN wstate : WorkerExit(w)

Spec == Init /\ [][Next]_vars

(* Every thread that can run is eventually run. *)
FairSpec ==
    /\ Spec
    /\ WF_vars(MainStep)
    /\ \A w \in 1..MaxLines : WF_vars(WorkerSend(w) \/ WorkerExit(w))

(***************************************************************************)
(* What the claims speak about.                                            *)
(***************************************************************************)

IsTime(l) == l.kind = "time"
IsEntry(l) == l.kind = "entry"

(* The sweep's timing lines and the Reporter's entries, as printed. *)
TimingLines == SelectSeq(out, IsTime)
Entries == SelectSeq(out, IsEntry)

InCall == pc \in {"scope", "drop", "recv"}

AllWorkersDone ==
    /\ Len(wstate) = Len(chunks)
    /\ \A w \in DOMAIN wstate : wstate[w] = "done"

RECURSIVE Flatten(_)
Flatten(ss) == IF ss = << >> THEN << >> ELSE Head(ss) \o Flatten(Tail(ss))

(* The least k with k * n >= len. *)
Ceil(len, n) ==
    CHOOSE k \in 0..len : k * n >= len /\ (k = 0 \/ (k - 1) * n < len)

(* C1: every count_chars_parallel call returns, and what it returns is     *)
(* the mapping count_chars gives for the whole line sequence, whatever the *)
(* thread count and the order in which the workers delivered.              *)
C1_ParallelEqualsSequential ==
    /\ panic # "chunk_size_zero"
    /\ \A i \in DOMAIN results : results[i] = count_chars(lines)

(* The same for the line sequences that have a line: holds of the code.    *)
NonEmptyParallelEqualsSequential ==
    lines # << >> =>
        /\ panic # "chunk_size_zero"
        /\ \A i \in DOMAIN results : results[i] = count_chars(lines)

(* C2: with an empty file (and a maximum the sweep can count to) nothing   *)
(* crashes, every call returns the empty mapping, and a finished run has   *)
(* printed the timing lines 1..M and no entry.                             *)
C2_EmptyFileCompletes ==
    (loaded = "ok" /\ lines = << >> /\ max_threads < USIZE_MAX) =>
        /\ panic = "none"
        /\ \A i \in DOMAIN results : results[i] = EmptyMap
        /\ pc = "done" =>
            /\ Len(TimingLines) = max_threads
            /\ Entries = << >>

(* C3: the chunks of a call, in order, concatenate to the line sequence;   *)
(* there are at most N of them and no more workers than chunks; every      *)
(* chunk but the last has ceil(L / N) lines, the last between 1 and that.  *)
C3_ChunksPartition ==
    InCall =>
        LET size == Ceil(Len(lines), par_level)
        IN  /\ Flatten(chunks) = lines
            /\ Len(chunks) <= par_level
            /\ Len(wstate) <= Len(chunks)
            /\ \A i \in DOMAIN chunks :
                IF i < Len(chunks)
                THEN Len(chunks[i]) = size
                ELSE Len(chunks[i]) \in 1..size

C3_Witness ==
    /\ pc = "scope"
    /\ Len(lines) = 3
    /\ par_level = 2
    /\ Len(chunks) = 2
    /\ Len(chunks[2]) = 1
    /\ Len(wstate) = 2

(* C4: once the caller is past thread::scope (about to drop the sender, or *)
(* in the receive loop from which it returns) every chunk's worker has     *)
(* sent and terminated, and nothing is merged anywhere else.               *)
C4_MergeAfterJoin ==
    /\ (pc \in {"drop", "recv"}) => AllWorkersDone
    /\ (pc \in {"drop", "recv"}) =>
            Len(chan) + received = Len(chunks)
    /\ pc = "scope" => (received = 0 /\ counter = EmptyMap)

C4_Witness ==
    /\ pc = "recv"
    /\ Len(chunks) = 3
    /\ received = 1
    /\ AllWorkersDone

(* C5: a benchmark call that has ended (returned to benchmark_all, or      *)
(* unwound) made exactly `reruns` invocations, one after the other, and    *)
(* returned the mapping of the last, which equals that of every earlier    *)
(* one; between two invocations no worker is alive.                        *)
BenchmarkEnded ==
    \/ pc = "sweep" /\ par_level > 1
    \/ pc = "panic" /\ panic \in {"chunk_size_zero", "send_error"}

C5_RerunsSequential ==
    /\ BenchmarkEnded =>
        /\ Len(results) = reruns
        /\ allCounter = Some(results[reruns])
        /\ \A i \in DOMAIN results : results[i] = results[reruns]
    /\ pc = "bench" => \A w \in DOMAIN wstate : wstate[w] = "done"

(* C6: for a maximum M the sweep can count to, the timing lines printed so *)
(* far are those of 1, 2, ... in order; while thread count k is measured   *)
(* exactly the lines of 1..k-1 are out; a program that has left the sweep  *)
(* has printed M lines and holds the mapping of thread count M.            *)
C6_SweepOrder ==
    max_threads < USIZE_MAX =>
        /\ \A i \in DOMAIN TimingLines : TimingLines[i].n = i
        /\ (pc = "bench" \/ InCall) => Len(TimingLines) = par_level - 1
        /\ (pc \in {"report", "done", "panic"}) =>
                Len(TimingLines) = max_threads
        /\ (pc \in {"report", "done"}) => stats = count_chars(lines)

(* C7: when --max or --reruns is 0 (and the maximum is one the sweep can   *)
(* count to) the warning is printed and 1 is used, benchmark_all and       *)
(* benchmark run with max >= 1 and reruns >= 1, no unwrap fails and        *)
(* nothing else makes the program crash.                                   *)
C7_ZeroArgsCorrected ==
    (/\ pc # "args"
     /\ args.max = 0 \/ args.reruns = 0
     /\ max_threads < USIZE_MAX) =>
        /\ args.max = 0 =>
            (max_threads = 1 /\ \E i \in DOMAIN out : out[i].kind = "warn_max")
        /\ args.reruns = 0 =>
            (reruns = 1 /\ \E i \in DOMAIN out : out[i].kind = "warn_reruns")
        /\ max_threads >= 1
        /\ reruns >= 1
        /\ panic = "none"

(* C8: after the Reporter, with --stats K the entries printed number       *)
(* min(max(K, 1), distinct characters), each count is that of its          *)
(* character in the final mapping and is at least the count of every later *)
(* entry and of every character not printed; without --stats nothing       *)
(* follows the timing lines.                                               *)
C8_TopEntries ==
    pc = "done" =>
        IF rank = None
        THEN \A i \in DOMAIN out :
                out[i].kind \in {"warn_max", "warn_reruns", "time"}
        ELSE LET K == rank[1]
                 want == IF K > 1 THEN K ELSE 1
                 distinct == Cardinality(DOMAIN stats)
                 printed == {Entries[i].ch : i \in DOMAIN Entries}
             IN  /\ Len(Entries) = (IF want < distinct THEN want ELSE distinct)
                 /\ \A i \in DOMAIN Entries :
                        /\ Entries[i].ch \in DOMAIN stats
                        /\ Entries[i].n = stats[Entries[i].ch]
                 /\ \A i, j \in DOMAIN Entries :
                        i < j => Entries[i].n >= Entries[j].n
                 /\ \A i \in DOMAIN Entries :
                        \A c \in (DOMAIN stats) \ printed :
                            Entries[i].n >= stats[c]

C8_Witness ==
    /\ pc = "done"
    /\ rank = Some(0)
    /\ Cardinality(DOMAIN stats) = 2
    /\ Len(Entries) = 1
    /\ Entries[1].ch = "b"

(* C9: when load_file fails the program is in its error outcome, having    *)
(* spawned no worker, made no call and printed no timing line and no       *)
(* entry; and nothing of the sweep happens before the file is loaded.      *)
C9_LoadErrorStops ==
    /\ loaded = "err" => pc = "error"
    /\ loaded # "ok" =>
        /\ panic = "none"
        /\ chunks = << >>
        /\ wstate = << >>
        /\ results = << >>
        /\ TimingLines = << >>
        /\ Entries = << >>

C9_Witness ==
    /\ loaded = "err"
    /\ pc = "error"
    /\ args.max = 0
    /\ out # << >>

(* C10: a call on a non-empty line sequence returns; no send fails, the    *)
(* receiver outlives every worker, every worker sends one mapping, the     *)
(* receive loop runs with every sender dropped and the call returns with   *)
(* one message taken per chunk.                                            *)
C10_CallSafety ==
    /\ panic # "send_error"
    /\ (\E w \in DOMAIN wstate : wstate[w] # "done") => ReceiverAlive
    /\ InCall =>
        Len(chan) + received =
            Cardinality({w \in DOMAIN wstate : wstate[w] # "running"})
    /\ pc = "recv" => OpenSenders = 0
    /\ (pc = "bench" /\ run > 0) =>
            (received = Len(chunks) /\ chan = << >>)

C10_CallTerminates ==
    /\ []C10_CallSafety
    /\ (pc = "scope" /\ lines # << >>) ~> (pc = "bench" /\ run > 0)

C10_Witness ==
    /\ pc = "bench"
    /\ run = 2
    /\ Len(chunks) = 3
    /\ received = 3

====
